---- MODULE Spec2Model ----
(***************************************************************************)
(* The module bootstrap pipeline of the kernel (discover -> validate ->    *)
(* load -> initialize), its diagnostics registry and its run-state flags.  *)
(* Strings that the code compares or sorts are sequences of UTF-16 code    *)
(* units; JavaScript values are tagged records.                            *)
(***************************************************************************)
EXTENDS Integers, Sequences, FiniteSets, TLC

\* ------------------------------------------------------------------ bounds
\* Most module directories under the modules root.
NumDirs == 3
\* Most setup() calls in one behaviour.
MaxCalls == 3
\* Most __resetState() calls in one behaviour.
MaxResets == 1
\* Most module directories under the modules root of the test harness.
NumTestDirs == 2

\* ----------------------------------------------------------------- strings
Min(a, b) == IF a < b THEN a ELSE b

\* s < t in the order of Array.prototype.sort() without a comparator:
\* code unit by code unit, a proper prefix first.
StrLess(s, t) ==
    \E i \in 1..(Min(Len(s), Len(t)) + 1) :
        /\ \A j \in 1..(i - 1) : s[j] = t[j]
        /\ \/ (i > Len(s) /\ i <= Len(t))
           \/ (i <= Len(s) /\ i <= Len(t) /\ s[i] < t[i])

\* String.prototype.endsWith
EndsWith(s, suf) ==
    /\ Len(suf) <= Len(s)
    /\ SubSeq(s, Len(s) - Len(suf) + 1, Len(s)) = suf

\* ".ts", ".js", ".py", "i"
ExtTs == <<46, 116, 115>>
ExtJs == <<46, 106, 115>>
ExtPy == <<46, 112, 121>>
Stem == <<105>>

RECURSIVE InsertSorted(_, _)
InsertSorted(x, sorted) ==
    IF sorted = <<>> THEN <<x>>
    ELSE IF StrLess(x, Head(sorted)) THEN <<x>> \o sorted
    ELSE <<Head(sorted)>> \o InsertSorted(x, Tail(sorted))

RECURSIVE SortInsert(_)
SortInsert(seq) ==
    IF seq = <<>> THEN <<>> ELSE InsertSorted(Head(seq), SortInsert(Tail(seq)))

\* A sort that was left out: the listing order of readdir is kept.
SortNamesOmitted(seq) == seq

\* directories.sort()
SortNames(seq) == SortInsert(seq)

\* All orders in which readdir may list the set S.
RECURSIVE Listings(_)
Listings(S) ==
    IF S = {} THEN {<<>>}
    ELSE UNION {{<<x>> \o l : l \in Listings(S \ {x})} : x \in S}

\* ------------------------------------------------------- JavaScript values
Undefined == [t |-> "undefined"]
Null == [t |-> "null"]
Num(n) == [t |-> "number", v |-> n]
Str(s) == [t |-> "string", v |-> s]
Bool(b) == [t |-> "boolean", v |-> b]
Arr == [t |-> "array"]
Obj(fields) == [t |-> "object", f |-> fields]
Func(behaviour) == [t |-> "function", v |-> behaviour]

\* typeof v
TypeOf(v) ==
    CASE v.t = "null" -> "object"
      [] v.t = "array" -> "object"
      [] OTHER -> v.t

\* Array.isArray(v)
IsArray(v) == v.t = "array"

\* ToBoolean(v), as `!v` and `v && ...` use it
Truthy(v) ==
    CASE v.t = "undefined" -> FALSE
      [] v.t = "null" -> FALSE
      [] v.t = "number" -> v.v # 0
      [] v.t = "string" -> v.v # <<>>
      [] v.t = "boolean" -> v.v
      [] OTHER -> TRUE

\* o.k for an object o: undefined when o has no property k
Prop(o, k) == IF k \in DOMAIN o.f THEN o.f[k] ELSE Undefined

\* ---------------------------------------------- Map, in insertion order
\* A Map is the sequence of its entries [k, v] in insertion order.
MapHas(m, k) == \E i \in 1..Len(m) : m[i].k = k
MapIndex(m, k) == CHOOSE i \in 1..Len(m) : m[i].k = k
MapGet(m, k) == m[MapIndex(m, k)].v
MapSet(m, k, v) ==
    IF MapHas(m, k)
    THEN [m EXCEPT ![MapIndex(m, k)] = [k |-> k, v |-> v]]
    ELSE Append(m, [k |-> k, v |-> v])
MapKeys(m) == [i \in 1..Len(m) |-> m[i].k]
MapValues(m) == [i \in 1..Len(m) |-> m[i].v]
MapKeySet(m) == {m[i].k : i \in 1..Len(m)}

\* {...a, ...b}
Spread(a, b) ==
    [k \in (DOMAIN a) \cup (DOMAIN b) |-> IF k \in DOMAIN b THEN b[k] ELSE a[k]]

\* ------------------------------------------------------------------ errors
\* A message is a template text with the values interpolated into it.
Msg(text, args) == [text |-> text, args |-> args]
NoCause == "undefined"

ModuleSetupError(message, module, stage, cause) ==
    [name |-> "ModuleSetupError", message |-> message, module |-> module,
     stage |-> stage, cause |-> cause]

ModuleDiscoveryError(module, cause) ==
    [ModuleSetupError(Msg("Failed to discover module", <<module>>),
                      module, "discovery", cause)
        EXCEPT !.name = "ModuleDiscoveryError"]

ModuleValidationError(message, module, cause) ==
    [ModuleSetupError(message, module, "validation", cause)
        EXCEPT !.name = "ModuleValidationError"]

\* field is "name" or "entry", as a string of code units
ManifestMissingFieldError(module, field) ==
    [ModuleValidationError(
        Msg("Manifest for module is missing required field", <<module, field>>),
        module, NoCause)
        EXCEPT !.name = "ManifestMissingFieldError"]

ManifestNameMismatchError(dirName, manifestName) ==
    [ModuleValidationError(
        Msg("Manifest name does not match folder name", <<manifestName, dirName>>),
        dirName, NoCause)
        EXCEPT !.name = "ManifestNameMismatchError"]

ManifestEntryNotFoundError(module, entry) ==
    [ModuleValidationError(
        Msg("Manifest entry file not found for module", <<entry, module>>),
        module, NoCause)
        EXCEPT !.name = "ManifestEntryNotFoundError"]

ModuleLoadError(module, cause) ==
    [ModuleSetupError(Msg("Failed to load module", <<module>>),
                      module, "loading", cause)
        EXCEPT !.name = "ModuleLoadError"]

EntryPointMissingInitError(module) ==
    [ModuleLoadError(module, NoCause)
        EXCEPT !.message = Msg("Entry point for module does not export an 'init' function",
                               <<module>>),
               !.name = "EntryPointMissingInitError"]

ModuleInitializationError(module, cause) ==
    [ModuleSetupError(Msg("Initialization failed for module", <<module>>),
                      module, "initialization", cause)
        EXCEPT !.name = "ModuleInitializationError"]

\* "name", "entry" as code units (the field argument of ManifestMissingFieldError)
FieldName == <<110, 97, 109, 101>>
FieldEntry == <<101, 110, 116, 114, 121>>

\* ------------------------------------------------ the modules root on disk
\* A root entry: a plain file, or a directory with a manifest.json (missing,
\* or holding a text) and source files (path -> what importing it does).
PlainFile == [isDir |-> FALSE]
NoManifest == [readable |-> FALSE]
BadJson == [readable |-> TRUE, valid |-> FALSE]
Json(value) == [readable |-> TRUE, valid |-> TRUE, value |-> value]
Dir(manifest, files) == [isDir |-> TRUE, manifest |-> manifest, files |-> files]

NoFiles == <<>>
\* A source file whose evaluation throws, and one that exports `exports`.
Throwing == [evaluates |-> FALSE]
Exporting(exports) == [evaluates |-> TRUE, exports |-> exports]
\* `export function init` / `export async function init`, by what a call does:
\* "returns", "throws" (synchronously), "resolves", "rejects" (after suspending).
InitBehaviours == {"returns", "throws", "resolves", "rejects"}
WithInit(behaviour) == Exporting([init |-> Func(behaviour)])

\* {"name": n, "entry": e}, a field left out when its value is undefined
Manifest(n, e) ==
    Obj((IF n.t = "undefined" THEN <<>> ELSE [name |-> n])
        @@ (IF e.t = "undefined" THEN <<>> ELSE [entry |-> e]))

EntryTs == Stem \o ExtTs
EntryJs == Stem \o ExtJs
EntryPy == Stem \o ExtPy
OtherName(d) == d \o <<120>>

\* The directory names, in an order that is not the sorted one.
NameList == << <<98>>, <<97>>, <<97, 98>>, <<97, 97>>, <<98, 97>> >>
Names == {NameList[i] : i \in 1..Min(NumDirs, Len(NameList))}

\* One entry per way through the pipeline, for directory name d.
CoreEntries(d) ==
    << PlainFile,
       Dir(NoManifest, NoFiles),
       Dir(Json(Null), NoFiles),
       Dir(Json(Manifest(Str(OtherName(d)), Str(EntryTs))), EntryTs :> WithInit("returns")),
       Dir(Json(Manifest(Str(d), Str(EntryTs))), EntryTs :> Throwing),
       Dir(Json(Manifest(Str(d), Str(EntryTs))), EntryTs :> WithInit("throws")),
       Dir(Json(Manifest(Str(d), Str(EntryJs))), EntryJs :> WithInit("rejects")),
       Dir(Json(Manifest(Str(d), Str(EntryTs))), EntryTs :> WithInit("resolves")) >>

\* Every manifest file and every shape of manifest object, for one directory.
NameValues(d) == {Undefined, Num(7), Str(<<>>), Str(d), Str(OtherName(d))}
EntryValues == {Undefined, Num(7), Str(<<>>), Str(EntryTs), Str(EntryJs), Str(EntryPy)}
FileSets(e) ==
    IF e.t = "string" /\ e.v # <<>>
    THEN {NoFiles, e.v :> WithInit("returns"), e.v :> Exporting([init |-> Num(1)]),
          e.v :> Exporting(<<>>)}
    ELSE {NoFiles}
WideEntries(d) ==
    {Dir(m, NoFiles) :
        m \in {NoManifest, BadJson, Json(Null), Json(Num(7)), Json(Str(d)),
               Json(Bool(TRUE)), Json(Arr)}}
    \cup UNION {UNION {{Dir(Json(Manifest(n, e)), fl) : fl \in FileSets(e)} :
                    e \in EntryValues} : n \in NameValues(d)}

\* Roots with up to NumDirs entries, each one of CoreEntries.
CoreRoots ==
    UNION {{[d \in S |-> CoreEntries(d)[pick[d]]] :
                pick \in [S -> 1..Len(CoreEntries(<<>>))]} : S \in SUBSET Names}

\* Roots with one directory, holding any of WideEntries.
WideRoots == {NameList[2] :> e : e \in WideEntries(NameList[2])}

\* ------------------------------------------------------------------- state
VARIABLES
    fs,                 \* the modules root: [listable, entries: name -> entry]
    testActive,         \* __test?.active
    now,                \* Date.now()
    modules,            \* Map<string, ModuleInfo>
    initOrder,          \* string[]
    setupTime,
    isSetupComplete,
    isSetupInProgress,
    runs,               \* the frames of the setup() calls that passed the gate
    calls,              \* history: each setup() call in call order: the state of
                        \* its promise and what the call found on entry
    initLog,            \* history: the names whose init was invoked, in order
    inFlight,           \* history: <<call, name>> of each init still pending
    resets,             \* history: the __resetState() calls that went through
    resetThrows         \* history: the __resetState() calls that threw

vars == <<fs, testActive, now, modules, initOrder, setupTime, isSetupComplete,
          isSetupInProgress, runs, calls, initLog, inFlight, resets, resetThrows>>

EmptyMap == <<>>
MaxRuns == MaxResets + 1

\* The locals of one setup() call and of the stage functions it awaits.
FreeRun ==
    [pc |-> "free", call |-> 0, startDate |-> 0, directories |-> <<>>, di |-> 0,
     output |-> EmptyMap, moduleManifests |-> EmptyMap, li |-> 0,
     moduleInits |-> EmptyMap, ii |-> 0, initStart |-> 0, pending |-> FALSE]

\* Everything one step of run r reads and writes.
Ctx(r) ==
    [modules |-> modules, initOrder |-> initOrder, setupTime |-> setupTime,
     isSetupComplete |-> isSetupComplete, isSetupInProgress |-> isSetupInProgress,
     initLog |-> initLog, inFlight |-> inFlight,
     run |-> runs[r], outcome |-> calls[runs[r].call].outcome]

Commit(r, c) ==
    /\ modules' = c.modules
    /\ initOrder' = c.initOrder
    /\ setupTime' = c.setupTime
    /\ isSetupComplete' = c.isSetupComplete
    /\ isSetupInProgress' = c.isSetupInProgress
    /\ initLog' = c.initLog
    /\ inFlight' = c.inFlight
    /\ runs' = [runs EXCEPT ![r] = c.run]
    /\ calls' = [calls EXCEPT ![c.run.call].outcome = c.outcome]

\* --------------------------------------------------------------- registry
setModuleInfo(mods, name, update) ==
    MapSet(mods, name,
           Spread(IF MapHas(mods, name) THEN MapGet(mods, name) ELSE <<>>, update))

\* ---------------------------------------------------------------- pipeline
\* The gate of setup(): TRUE when the call returns at once.
GateCompleteOnly == isSetupComplete
GateInProgressOnly == isSetupInProgress
Gate == isSetupComplete \/ isSetupInProgress

\* The promise of setup() rejects: an exception left the function.
Reject(c) == [c EXCEPT !.run.pc = "rejected", !.outcome = "rejected"]

\* The tail of setup() leaving the in-progress flag set.
CompleteKeepsInProgress(c, t) ==
    [c EXCEPT !.setupTime = t - c.run.startDate,
              !.isSetupComplete = TRUE,
              !.run.pc = "done",
              !.outcome = "resolved"]

\* The tail of setup(), at time t.
Complete(c, t) ==
    [c EXCEPT !.setupTime = t - c.run.startDate,
              !.isSetupInProgress = FALSE,
              !.isSetupComplete = TRUE,
              !.run.pc = "done",
              !.outcome = "resolved"]

\* readdir(...).filter(d => d.isDirectory()).map(d => d.name), for a listing
DirectoriesOf(listing) == SelectSeq(listing, LAMBDA n : fs.entries[n].isDir)

\* The try block of discover() for one directory: the manifest, or what was
\* thrown by readFile, by JSON.parse or by the shape check.
ReadManifest(dir) ==
    LET file == fs.entries[dir].manifest IN
    IF ~file.readable THEN [ok |-> FALSE, cause |-> "ENOENT"]
    ELSE IF ~file.valid THEN [ok |-> FALSE, cause |-> "SyntaxError"]
    ELSE IF TypeOf(file.value) # "object" \/ IsArray(file.value)
         THEN [ok |-> FALSE, cause |-> "manifest JSON must be an object"]
         ELSE [ok |-> TRUE, manifest |-> file.value]

\* One round of the first loop of discover().
DiscoverDir(c, dir) ==
    LET r == ReadManifest(dir) IN
    IF r.ok
    THEN [c EXCEPT !.run.output = MapSet(@, dir, r.manifest)]
    ELSE [c EXCEPT !.modules =
              setModuleInfo(@, dir,
                  [name |-> dir, success |-> FALSE, stage |-> "discovery",
                   error |-> ModuleDiscoveryError(dir, r.cause)])]

\* The second loop of discover(), from entry i of output on.
RECURSIVE RecordDiscovered(_, _, _)
RecordDiscovered(mods, output, i) ==
    IF i > Len(output) THEN mods
    ELSE RecordDiscovered(
            setModuleInfo(mods, output[i].k,
                [name |-> output[i].k, success |-> TRUE, stage |-> "discovery",
                 manifest |-> output[i].v]),
            output, i + 1)

\* existsSync(join(absoluteModulePath, dirName, entry))
ExistsSync(dirName, entry) == entry \in DOMAIN fs.entries[dirName].files

\* const { name, entry } = manifest throws a TypeError for null.
Destructurable(manifest) == manifest.t \notin {"null", "undefined"}

\* validate() with the file looked up before the extension is checked.
ValidationErrorExistsFirst(dirName, manifest) ==
    LET name == Prop(manifest, "name")
        entry == Prop(manifest, "entry")
    IN  IF ~Truthy(name) \/ TypeOf(name) # "string"
        THEN [some |-> TRUE, error |-> ManifestMissingFieldError(dirName, FieldName)]
        ELSE IF ~Truthy(entry) \/ TypeOf(entry) # "string"
        THEN [some |-> TRUE, error |-> ManifestMissingFieldError(dirName, FieldEntry)]
        ELSE IF name.v # dirName
        THEN [some |-> TRUE, error |-> ManifestNameMismatchError(dirName, name.v)]
        ELSE IF Truthy(entry) /\ ~ExistsSync(dirName, entry.v)
        THEN [some |-> TRUE, error |-> ManifestEntryNotFoundError(dirName, entry.v)]
        ELSE IF Truthy(entry) /\ ~(EndsWith(entry.v, ExtTs) \/ EndsWith(entry.v, ExtJs))
        THEN [some |-> TRUE,
              error |-> ModuleValidationError(Msg("", <<dirName>>), entry.v,
                            "Entrypoint must be TypeScript or JavaScript")]
        ELSE [some |-> FALSE]

\* validate() with the comparison of name and directory name left out.
ValidationErrorNameUnchecked(dirName, manifest) ==
    LET name == Prop(manifest, "name")
        entry == Prop(manifest, "entry")
    IN  IF ~Truthy(name) \/ TypeOf(name) # "string"
        THEN [some |-> TRUE, error |-> ManifestMissingFieldError(dirName, FieldName)]
        ELSE IF ~Truthy(entry) \/ TypeOf(entry) # "string"
        THEN [some |-> TRUE, error |-> ManifestMissingFieldError(dirName, FieldEntry)]
        ELSE IF Truthy(entry) /\ ~(EndsWith(entry.v, ExtTs) \/ EndsWith(entry.v, ExtJs))
        THEN [some |-> TRUE,
              error |-> ModuleValidationError(Msg("", <<dirName>>), entry.v,
                            "Entrypoint must be TypeScript or JavaScript")]
        ELSE IF Truthy(entry) /\ ~ExistsSync(dirName, entry.v)
        THEN [some |-> TRUE, error |-> ManifestEntryNotFoundError(dirName, entry.v)]
        ELSE [some |-> FALSE]

\* The chain of checks of validate(): the error it builds, or none.
ValidationError(dirName, manifest) ==
    LET name == Prop(manifest, "name")
        entry == Prop(manifest, "entry")
    IN  IF ~Truthy(name) \/ TypeOf(name) # "string"
        THEN [some |-> TRUE, error |-> ManifestMissingFieldError(dirName, FieldName)]
        ELSE IF ~Truthy(entry) \/ TypeOf(entry) # "string"
        THEN [some |-> TRUE, error |-> ManifestMissingFieldError(dirName, FieldEntry)]
        ELSE IF name.v # dirName
        THEN [some |-> TRUE, error |-> ManifestNameMismatchError(dirName, name.v)]
        ELSE IF Truthy(entry) /\ ~(EndsWith(entry.v, ExtTs) \/ EndsWith(entry.v, ExtJs))
        THEN [some |-> TRUE,
              error |-> ModuleValidationError(Msg("", <<dirName>>), entry.v,
                            "Entrypoint must be TypeScript or JavaScript")]
        ELSE IF Truthy(entry) /\ ~ExistsSync(dirName, entry.v)
        THEN [some |-> TRUE, error |-> ManifestEntryNotFoundError(dirName, entry.v)]
        ELSE [some |-> FALSE]

\* validate(dirName, manifest) on the registry: [valid, modules].
validate(mods, dirName, manifest) ==
    LET e == ValidationError(dirName, manifest) IN
    IF e.some
    THEN [valid |-> FALSE,
          modules |-> setModuleInfo(mods, dirName,
              [success |-> FALSE, stage |-> "validation", error |-> e.error])]
    ELSE [valid |-> TRUE,
          modules |-> setModuleInfo(mods, dirName,
              [success |-> TRUE, stage |-> "validation"])]

\* The first loop of setup(), from entry i of discover()'s map on; the run is
\* rejected when validate throws.
RECURSIVE ValidateLoop(_, _)
ValidateLoop(c, i) ==
    IF i > Len(c.run.output) THEN c
    ELSE LET name == c.run.output[i].k
             manifest == c.run.output[i].v
         IN  IF ~Destructurable(manifest) THEN Reject(c)
             ELSE LET v == validate(c.modules, name, manifest) IN
                  ValidateLoop(
                      [c EXCEPT !.modules = v.modules,
                                !.run.moduleManifests =
                                    IF v.valid THEN MapSet(@, name, manifest) ELSE @],
                      i + 1)

\* await import(path): the module namespace, or what the import threw.
Import(dirName, entry) ==
    LET files == IF dirName \in DOMAIN fs.entries /\ fs.entries[dirName].isDir
                 THEN fs.entries[dirName].files ELSE NoFiles
    IN
    IF entry \notin DOMAIN files THEN [ok |-> FALSE, cause |-> "ERR_MODULE_NOT_FOUND"]
    ELSE IF ~files[entry].evaluates THEN [ok |-> FALSE, cause |-> "thrown by the module"]
    ELSE [ok |-> TRUE, ns |-> Obj(files[entry].exports)]

\* load() without the test that init is a function.
loadUnchecked(mods, manifest) ==
    LET name == Prop(manifest, "name").v
        imported == Import(name, Prop(manifest, "entry").v)
        init == IF imported.ok THEN Prop(imported.ns, "init") ELSE Undefined
    IN  IF ~imported.ok
        THEN [init |-> Undefined,
              modules |-> setModuleInfo(mods, name,
                  [success |-> FALSE, stage |-> "loading",
                   error |-> ModuleLoadError(name, imported.cause)])]
        ELSE [init |-> init,
              modules |-> setModuleInfo(mods, name,
                  [success |-> TRUE, stage |-> "loading"])]

\* load(manifest) once the import has settled: [init, modules], init undefined
\* for the null that load returns.
load(mods, manifest) ==
    LET name == Prop(manifest, "name").v
        imported == Import(name, Prop(manifest, "entry").v)
        init == IF imported.ok THEN Prop(imported.ns, "init") ELSE Undefined
    IN  IF ~imported.ok
        THEN [init |-> Undefined,
              modules |-> setModuleInfo(mods, name,
                  [success |-> FALSE, stage |-> "loading",
                   error |-> ModuleLoadError(name, imported.cause)])]
        ELSE IF ~Truthy(init) \/ TypeOf(init) # "function"
        THEN [init |-> Undefined,
              modules |-> setModuleInfo(mods, name,
                  [success |-> FALSE, stage |-> "loading",
                   error |-> EntryPointMissingInitError(name)])]
        ELSE [init |-> init,
              modules |-> setModuleInfo(mods, name,
                  [success |-> TRUE, stage |-> "loading"])]

\* Every remaining init is called without awaiting the one before.
InvokeInitAll(c, t) ==
    LET rest == {c.run.moduleInits[i].k : i \in c.run.ii..Len(c.run.moduleInits)} IN
    [c EXCEPT !.run.pc = "init", !.run.initStart = t, !.run.pending = TRUE,
              !.initLog = Append(@, c.run.moduleInits[c.run.ii].k),
              !.inFlight = @ \cup {<<c.run.call, n>> : n \in rest}]

\* initialize(name, init) up to its await, at time t, for entry ii of the
\* loaded modules: init is called; a synchronous throw is caught at once.
InvokeInit(c, t) ==
    LET name == c.run.moduleInits[c.run.ii].k
        init == c.run.moduleInits[c.run.ii].v
        called == [c EXCEPT !.run.pc = "init", !.run.initStart = t,
                            !.initLog = Append(@, name)]
    IN  IF init.v = "throws"
        THEN [called EXCEPT !.run.pending = FALSE,
                  !.modules = setModuleInfo(@, name,
                      [success |-> FALSE, stage |-> "initialization",
                       error |-> ModuleInitializationError(name, "thrown")])]
        ELSE [called EXCEPT !.run.pending = TRUE,
                  !.inFlight = @ \cup {<<c.run.call, name>>}]

\* initialize() putting the name at the head of the log.
SettleInitPrepends(c, t) ==
    LET name == c.run.moduleInits[c.run.ii].k
        init == c.run.moduleInits[c.run.ii].v
        landed == [c EXCEPT !.run.pending = FALSE,
                            !.inFlight = @ \ {<<c.run.call, name>>}]
    IN  IF ~c.run.pending THEN c
        ELSE IF init.v \in {"returns", "resolves"}
        THEN [landed EXCEPT !.initOrder = <<name>> \o @,
                  !.modules = setModuleInfo(@, name,
                      [success |-> TRUE, stage |-> "initialization",
                       initTime |-> t - c.run.initStart])]
        ELSE [landed EXCEPT
                  !.modules = setModuleInfo(@, name,
                      [success |-> FALSE, stage |-> "initialization",
                       error |-> ModuleInitializationError(name, "rejected")])]

\* initialize() pushing the name on the log whatever the promise did.
SettleInitLogsAlways(c, t) ==
    LET name == c.run.moduleInits[c.run.ii].k
        init == c.run.moduleInits[c.run.ii].v
        landed == [c EXCEPT !.run.pending = FALSE,
                            !.inFlight = @ \ {<<c.run.call, name>>},
                            !.initOrder = Append(@, name)]
    IN  IF ~c.run.pending THEN c
        ELSE IF init.v \in {"returns", "resolves"}
        THEN [landed EXCEPT
                  !.modules = setModuleInfo(@, name,
                      [success |-> TRUE, stage |-> "initialization",
                       initTime |-> t - c.run.initStart])]
        ELSE [landed EXCEPT
                  !.modules = setModuleInfo(@, name,
                      [success |-> FALSE, stage |-> "initialization",
                       error |-> ModuleInitializationError(name, "rejected")])]

\* initialize() after its await: the promise of init() has settled at time t.
SettleInit(c, t) ==
    LET name == c.run.moduleInits[c.run.ii].k
        init == c.run.moduleInits[c.run.ii].v
        landed == [c EXCEPT !.run.pending = FALSE,
                            !.inFlight = @ \ {<<c.run.call, name>>}]
    IN  IF ~c.run.pending THEN c
        ELSE IF init.v \in {"returns", "resolves"}
        THEN [landed EXCEPT !.initOrder = Append(@, name),
                  !.modules = setModuleInfo(@, name,
                      [success |-> TRUE, stage |-> "initialization",
                       initTime |-> t - c.run.initStart])]
        ELSE [landed EXCEPT
                  !.modules = setModuleInfo(@, name,
                      [success |-> FALSE, stage |-> "initialization",
                       error |-> ModuleInitializationError(name, "rejected")])]

\* setup() from the end of its second loop: the first init, or the tail.
AfterLoads(c, t) ==
    IF Len(c.run.moduleInits) = 0 THEN Complete(c, t)
    ELSE InvokeInit([c EXCEPT !.run.ii = 1], t)

\* setup() from the return of discover(): the validation loop, then the
\* first import, or the tail when nothing is left to load.
AfterDiscover(c, t) ==
    LET recorded == [c EXCEPT !.modules = RecordDiscovered(@, c.run.output, 1)]
        validated == ValidateLoop(recorded, 1)
    IN  IF validated.run.pc = "rejected" THEN validated
        ELSE IF Len(validated.run.moduleManifests) = 0 THEN AfterLoads(validated, t)
        ELSE [validated EXCEPT !.run.pc = "load", !.run.li = 1]

\* ----------------------------------------------------------------- actions
\* What a call of setup() finds on entry.
Found ==
    IF isSetupComplete THEN "complete"
    ELSE IF isSetupInProgress THEN "in-progress" ELSE "idle"

\* A call of setup(), up to its first await.
SetupCall ==
    /\ Len(calls) < MaxCalls
    /\ IF Gate
       THEN /\ calls' = Append(calls, [outcome |-> "resolved", found |-> Found])
            /\ UNCHANGED <<fs, testActive, now, modules, initOrder, setupTime,
                           isSetupComplete, isSetupInProgress, runs, initLog,
                           inFlight, resets, resetThrows>>
       ELSE /\ \E r \in 1..MaxRuns :
                  /\ runs[r].pc = "free"
                  /\ \A q \in 1..(r - 1) : runs[q].pc # "free"
                  /\ runs' = [runs EXCEPT ![r] =
                                 [FreeRun EXCEPT !.pc = "readdir",
                                                 !.call = Len(calls) + 1,
                                                 !.startDate = now]]
            /\ isSetupInProgress' = TRUE
            /\ calls' = Append(calls, [outcome |-> "pending", found |-> Found])
            /\ UNCHANGED <<fs, testActive, now, modules, initOrder, setupTime,
                           isSetupComplete, initLog, inFlight, resets, resetThrows>>

\* readdir settles: discover() sorts the directories and reads the first
\* manifest, or the rejection leaves discover() and setup().
ReaddirSettle(r) ==
    /\ runs[r].pc = "readdir"
    /\ now' = now + 1
    /\ UNCHANGED <<fs, testActive, resets, resetThrows>>
    /\ IF ~fs.listable
       THEN Commit(r, Reject(Ctx(r)))
       ELSE \E listing \in Listings(DOMAIN fs.entries) :
               LET dirs == SortNames(DirectoriesOf(listing))
                   c == [Ctx(r) EXCEPT !.run.directories = dirs]
               IN  Commit(r, IF dirs = <<>>
                             THEN AfterDiscover(c, now + 1)
                             ELSE [c EXCEPT !.run.pc = "readFile", !.run.di = 1])

\* readFile of directory di settles: the rest of that round of discover(),
\* then the next readFile, or the return to setup().
ReadFileSettle(r) ==
    /\ runs[r].pc = "readFile"
    /\ now' = now + 1
    /\ UNCHANGED <<fs, testActive, resets, resetThrows>>
    /\ LET c == DiscoverDir(Ctx(r), runs[r].directories[runs[r].di]) IN
       Commit(r, IF runs[r].di < Len(runs[r].directories)
                 THEN [c EXCEPT !.run.di = @ + 1]
                 ELSE AfterDiscover(c, now + 1))

\* The second loop of setup() left after its first load.
ImportSettleNoBarrier(r) ==
    /\ runs[r].pc = "load"
    /\ now' = now + 1
    /\ UNCHANGED <<fs, testActive, resets, resetThrows>>
    /\ LET name == runs[r].moduleManifests[runs[r].li].k
           l == load(modules, runs[r].moduleManifests[runs[r].li].v)
           c == [Ctx(r) EXCEPT !.modules = l.modules,
                               !.run.moduleInits =
                                   IF Truthy(l.init) THEN MapSet(@, name, l.init) ELSE @]
       IN  Commit(r, AfterLoads(c, now + 1))

\* The import of load() for entry li settles: the rest of load(), then the
\* next load, or the third loop of setup().
ImportSettle(r) ==
    /\ runs[r].pc = "load"
    /\ now' = now + 1
    /\ UNCHANGED <<fs, testActive, resets, resetThrows>>
    /\ LET name == runs[r].moduleManifests[runs[r].li].k
           l == load(modules, runs[r].moduleManifests[runs[r].li].v)
           c == [Ctx(r) EXCEPT !.modules = l.modules,
                               !.run.moduleInits =
                                   IF Truthy(l.init) THEN MapSet(@, name, l.init) ELSE @]
       IN  Commit(r, IF runs[r].li < Len(runs[r].moduleManifests)
                     THEN [c EXCEPT !.run.li = @ + 1]
                     ELSE AfterLoads(c, now + 1))

\* The await of initialize() for entry ii ends: the rest of initialize(),
\* then the next initialize(), or the tail of setup().
InitSettle(r) ==
    /\ runs[r].pc = "init"
    /\ now' = now + 1
    /\ UNCHANGED <<fs, testActive, resets, resetThrows>>
    /\ LET c == SettleInit(Ctx(r), now + 1) IN
       Commit(r, IF runs[r].ii < Len(runs[r].moduleInits)
                 THEN InvokeInit([c EXCEPT !.run.ii = @ + 1], now + 1)
                 ELSE Complete(c, now + 1))

\* __resetState() without its guard.
ResetStateUnguarded ==
    /\ resets + resetThrows < MaxResets
    /\ modules' = EmptyMap
    /\ initOrder' = <<>>
    /\ setupTime' = 0
    /\ isSetupComplete' = FALSE
    /\ isSetupInProgress' = FALSE
    /\ resets' = resets + 1
    /\ UNCHANGED <<fs, testActive, now, runs, calls, initLog, inFlight, resetThrows>>

\* __resetState(): throws outside a testing environment.
ResetState ==
    /\ resets + resetThrows < MaxResets
    /\ IF ~testActive
       THEN /\ resetThrows' = resetThrows + 1
            /\ UNCHANGED <<fs, testActive, now, modules, initOrder, setupTime,
                           isSetupComplete, isSetupInProgress, runs, calls,
                           initLog, inFlight, resets>>
       ELSE /\ modules' = EmptyMap
            /\ initOrder' = <<>>
            /\ setupTime' = 0
            /\ isSetupComplete' = FALSE
            /\ isSetupInProgress' = FALSE
            /\ resets' = resets + 1
            /\ UNCHANGED <<fs, testActive, now, runs, calls, initLog, inFlight,
                           resetThrows>>

InitState ==
    /\ now = 0
    /\ modules = EmptyMap
    /\ initOrder = <<>>
    /\ setupTime = 0
    /\ isSetupComplete = FALSE
    /\ isSetupInProgress = FALSE
    /\ runs = [r \in 1..MaxRuns |-> FreeRun]
    /\ calls = <<>>
    /\ initLog = <<>>
    /\ inFlight = {}
    /\ resets = 0
    /\ resetThrows = 0

Unlistable == [listable |-> FALSE, entries |-> <<>>]
Listable(entries) == [listable |-> TRUE, entries |-> entries]

\* The application: no testing environment.
Init ==
    /\ fs \in {Unlistable} \cup {Listable(e) : e \in CoreRoots \cup WideRoots}
    /\ testActive = FALSE
    /\ InitState

Next ==
    \/ SetupCall
    \/ \E r \in 1..MaxRuns : ReaddirSettle(r)
    \/ \E r \in 1..MaxRuns : ReadFileSettle(r)
    \/ \E r \in 1..MaxRuns : ImportSettle(r)
    \/ \E r \in 1..MaxRuns : InitSettle(r)
    \/ ResetState

Spec == Init /\ [][Next]_vars

\* Modules the test suite creates: no manifest, a null manifest, a throwing
\* entry point, a rejecting init and a resolving init.
TestEntries(d) ==
    << CoreEntries(d)[2], CoreEntries(d)[3], CoreEntries(d)[5], CoreEntries(d)[7],
       CoreEntries(d)[8] >>

\* Roots of the test harness: up to NumTestDirs directories of TestEntries.
TestNames == {NameList[i] : i \in 1..Min(NumTestDirs, Len(NameList))}
TestRoots ==
    UNION {{[d \in S |-> TestEntries(d)[pick[d]]] :
                pick \in [S -> 1..Len(TestEntries(<<>>))]} : S \in SUBSET TestNames}

\* The test harness (initTestGlobal has run) beside the application.
InitTest ==
    /\ fs \in {Unlistable} \cup {Listable(e) : e \in TestRoots}
    /\ testActive \in BOOLEAN
    /\ InitState

SpecTest == InitTest /\ [][Next]_vars


\* --------------------------------------------------------------- reporting
\* getReport() counting for each stage only the records now at that stage.
getReportCurrentStage ==
    LET moduleInfo == MapValues(modules)
        failed == SelectSeq(moduleInfo, LAMBDA m : ~m.success)
    IN  [discovered |-> Len(moduleInfo),
         validated |-> Len(SelectSeq(moduleInfo, LAMBDA m :
                          m.stage = "validation" /\ m.success)),
         loaded |-> Len(SelectSeq(moduleInfo, LAMBDA m :
                          m.stage = "loading" /\ m.success)),
         initialized |-> Len(SelectSeq(moduleInfo, LAMBDA m :
                          m.stage = "initialization" /\ m.success)),
         failed |-> Len(failed),
         setupTime |-> setupTime,
         moduleDetails |-> moduleInfo,
         errors |-> [i \in 1..Len(failed) |-> failed[i].error]]

getReport ==
    LET moduleInfo == MapValues(modules)
        failed == SelectSeq(moduleInfo, LAMBDA m : ~m.success)
    IN  [discovered |-> Len(moduleInfo),
         validated |-> Len(SelectSeq(moduleInfo, LAMBDA m :
                          \/ (m.stage = "validation" /\ m.success)
                          \/ m.stage = "loading"
                          \/ m.stage = "initialization")),
         loaded |-> Len(SelectSeq(moduleInfo, LAMBDA m :
                          \/ (m.stage = "loading" /\ m.success)
                          \/ m.stage = "initialization")),
         initialized |-> Len(SelectSeq(moduleInfo, LAMBDA m :
                          m.stage = "initialization" /\ m.success)),
         failed |-> Len(failed),
         setupTime |-> setupTime,
         moduleDetails |-> moduleInfo,
         errors |-> [i \in 1..Len(failed) |-> failed[i].error]]

getLoadOrder == initOrder

getModuleInfo(moduleName) ==
    IF MapHas(modules, moduleName) THEN MapGet(modules, moduleName) ELSE Undefined

\* modules.values().filter(success only).map(m => m.manifest)
getManifestsAnySuccess ==
    LET kept == SelectSeq(MapValues(modules), LAMBDA m : m.success)
    IN  [i \in 1..Len(kept) |->
            IF "manifest" \in DOMAIN kept[i] THEN kept[i].manifest ELSE Undefined]

\* m.manifest is undefined for a record that holds no manifest
getManifests ==
    LET kept == SelectSeq(MapValues(modules),
                          LAMBDA m : m.success /\ m.stage = "initialization")
    IN  [i \in 1..Len(kept) |->
            IF "manifest" \in DOMAIN kept[i] THEN kept[i].manifest ELSE Undefined]

\* modules.get(moduleName)?.success || false
isModuleSetUp(moduleName) ==
    IF MapHas(modules, moduleName) THEN MapGet(modules, moduleName).success ELSE FALSE

\* ------------------------------------------------ vocabulary of the claims
\* The module directories of the root.
Dirs == {d \in DOMAIN fs.entries : fs.entries[d].isDir}
HasRecord(n) == MapHas(modules, n)
Record(n) == MapGet(modules, n)
InitCalls(n) == Len(SelectSeq(initLog, LAMBDA x : x = n))
Settled == calls # <<>> /\ \A i \in 1..Len(calls) : calls[i].outcome # "pending"
Started(r) == runs[r].pc # "free"
IsSorted(seq) == \A i, j \in 1..Len(seq) : i < j => StrLess(seq[i], seq[j])

\* The stage at which directory d is bound to fail, read off the disk alone
\* by the rules of the specification; "none" for a fully valid module.
ExpectedFailure(d) ==
    LET m == fs.entries[d].manifest
        files == fs.entries[d].files
    IN  IF ~m.readable \/ ~m.valid \/ m.value.t # "object" THEN "discovery"
        ELSE LET name == Prop(m.value, "name")
                 entry == Prop(m.value, "entry")
             IN  IF \/ name.t # "string" \/ entry.t # "string"
                    \/ name.v = <<>> \/ entry.v = <<>>
                    \/ name.v # d
                    \/ ~(EndsWith(entry.v, ExtTs) \/ EndsWith(entry.v, ExtJs))
                    \/ entry.v \notin DOMAIN files
                 THEN "validation"
                 ELSE IF \/ ~files[entry.v].evaluates
                         \/ "init" \notin DOMAIN files[entry.v].exports
                         \/ files[entry.v].exports.init.t # "function"
                 THEN "loading"
                 ELSE IF files[entry.v].exports.init.v \in {"throws", "rejects"}
                 THEN "initialization"
                 ELSE "none"

\* ------------------------------------------------------------------ claims
\* C1: setup() never raises: no promise returned by setup() rejects,
\* whatever the modules root holds.
C1_SetupNeverRejects ==
    \A i \in 1..Len(calls) : calls[i].outcome # "rejected"

\* C2: failure isolation: once setup() has settled, the report counts the
\* fully valid modules as initialized and the others as failed, and each
\* failing module's record and error carry the stage at which it is bound
\* to fail, whatever the other directories hold.
C2_FailureIsolation ==
    Settled =>
        /\ getReport.initialized = Cardinality({d \in Dirs : ExpectedFailure(d) = "none"})
        /\ getReport.failed = Cardinality({d \in Dirs : ExpectedFailure(d) # "none"})
        /\ \A d \in Dirs :
              ExpectedFailure(d) # "none" =>
                  /\ HasRecord(d)
                  /\ ~Record(d).success
                  /\ Record(d).stage = ExpectedFailure(d)
                  /\ Record(d).error.stage = ExpectedFailure(d)

\* C3: over any sequential or overlapping setup() calls, the init of a
\* module is invoked at most once, only for a module that loaded, never for
\* a module that failed discovery, validation or loading, and by the time
\* the run is complete the init of every loaded module has been invoked.
C3_InitExactlyOnce ==
    \A n \in DOMAIN fs.entries :
        /\ InitCalls(n) <= 1
        /\ InitCalls(n) = 1 =>
              /\ HasRecord(n)
              /\ \/ Record(n).stage = "initialization"
                 \/ (Record(n).stage = "loading" /\ Record(n).success)
        /\ (HasRecord(n) /\ ~Record(n).success /\ Record(n).stage # "initialization")
              => InitCalls(n) = 0
        /\ (isSetupComplete /\ HasRecord(n) /\ Record(n).stage = "loading")
              => ~Record(n).success
        /\ (isSetupComplete /\ HasRecord(n) /\ Record(n).stage = "initialization")
              => InitCalls(n) = 1

\* C3 witness: a complete run with further setup() calls, a module whose
\* init ran once and a module that failed before initialization.
C3_Witness ==
    /\ isSetupComplete
    /\ Len(calls) >= 3
    /\ \E i, j \in 1..Len(calls) :
          calls[i].found = "in-progress" /\ calls[j].found = "complete"
    /\ \E n \in Dirs : InitCalls(n) = 1
    /\ \E n \in Dirs : HasRecord(n) /\ Record(n).stage = "loading" /\ InitCalls(n) = 0

\* C4: a setup() call made while a run is in progress resolves at once and
\* changes neither the registry, the load order log, the setup time, the
\* flags, nor the progress of the run (no stage work).
C4_SingleFlightGate ==
    [][(isSetupInProgress /\ Len(calls') = Len(calls) + 1) =>
          /\ calls'[Len(calls')].outcome = "resolved"
          /\ UNCHANGED <<modules, initOrder, setupTime, isSetupComplete,
                         isSetupInProgress, runs, initLog, inFlight>>]_vars

\* C4 witness: a second call has resolved while the first run is suspended
\* in an initializer.
C4_Witness ==
    /\ isSetupInProgress
    /\ \E r \in 1..MaxRuns : runs[r].pc = "init" /\ runs[r].pending
    /\ \E i \in 1..Len(calls) :
          calls[i].found = "in-progress" /\ calls[i].outcome = "resolved"

\* C5: a setup() call after a completed run resolves at once and leaves the
\* report (counts, records, setup time) and the load order as they were,
\* with no stage work.
C5_Idempotent ==
    [][(isSetupComplete /\ ~isSetupInProgress /\ Len(calls') = Len(calls) + 1) =>
          /\ calls'[Len(calls')].outcome = "resolved"
          /\ getReport' = getReport
          /\ getLoadOrder' = getLoadOrder
          /\ UNCHANGED <<runs, initLog, inFlight, isSetupComplete, isSetupInProgress>>]_vars

\* C5 witness: a call found the run complete, with modules initialized and
\* modules failed in the registry.
C5_Witness ==
    /\ \E i \in 1..Len(calls) : calls[i].found = "complete" /\ calls[i].outcome = "resolved"
    /\ getReport.initialized >= 1
    /\ getReport.failed >= 1

\* C6: the load order log is the sequence of the names whose initializer
\* ran and succeeded, in the order the initializers ran, and it is in
\* lexicographic order of the directory names.
C6_LoadOrderLexicographic ==
    /\ initOrder = SelectSeq(initLog, LAMBDA n :
                       /\ HasRecord(n)
                       /\ Record(n).stage = "initialization"
                       /\ Record(n).success)
    /\ IsSorted(initLog)
    /\ IsSorted(initOrder)

\* C6 witness: a complete run with two initialized modules and, between
\* them in lexicographic order, a module that failed.
C6_Witness ==
    /\ isSetupComplete
    /\ Len(initOrder) >= 2
    /\ \E n \in Dirs :
          /\ HasRecord(n) /\ ~Record(n).success
          /\ StrLess(initOrder[1], n) /\ StrLess(n, initOrder[2])

\* C7: at most one initializer is in flight, and whenever an initializer
\* has been invoked every initializer invoked before it has completed or
\* failed.
C7_SequentialInit ==
    /\ Cardinality(inFlight) <= 1
    /\ \A i \in 1..(Len(initLog) - 1) :
          /\ \A f \in inFlight : f[2] # initLog[i]
          /\ HasRecord(initLog[i])
          /\ Record(initLog[i]).stage = "initialization"

\* C7 witness: an initializer is suspended after an earlier one completed.
C7_Witness ==
    /\ Len(initLog) >= 2
    /\ Cardinality(inFlight) = 1
    /\ Record(initLog[1]).stage = "initialization"

\* Run r is suspended on an awaited operation (readdir, readFile, import or
\* an initializer), which is then free to settle.
Awaiting(r) == runs[r].pc \in {"readdir", "readFile", "load", "init"}

\* C8: a run that has entered in-progress and is not waiting for an awaited
\* operation to settle is complete: every run goes on until completed is
\* true and in-progress is false.
C8_RunReachesComplete ==
    \A r \in 1..MaxRuns :
        Started(r) =>
            \/ Awaiting(r)
            \/ (runs[r].pc = "done" /\ isSetupComplete /\ ~isSetupInProgress)

\* The manifest file of d is unreadable, unparsable, or not a non-array object.
BadManifest(d) ==
    LET m == fs.entries[d].manifest IN
    ~m.readable \/ ~m.valid \/ m.value.t # "object"

\* C9: once discovery has gone through the directories, every directory
\* with a bad manifest has a discovery-failure record with a
\* ModuleDiscoveryError, and never gets further.
C9_BadManifestRejected ==
    \A r \in 1..MaxRuns :
        runs[r].pc \in {"load", "init", "done", "rejected"} =>
            \A i \in 1..Len(runs[r].directories) :
                LET d == runs[r].directories[i] IN
                BadManifest(d) =>
                    /\ HasRecord(d)
                    /\ Record(d).stage = "discovery"
                    /\ ~Record(d).success
                    /\ Record(d).error.name = "ModuleDiscoveryError"
                    /\ ~MapHas(runs[r].moduleManifests, d)
                    /\ InitCalls(d) = 0

\* The manifest of record m names a string other than the directory.
NameDiffers(m) ==
    /\ "manifest" \in DOMAIN m
    /\ m.manifest.t = "object"
    /\ Prop(m.manifest, "name").t = "string"
    /\ Prop(m.manifest, "name").v # m.name
NonEmptyString(v) == v.t = "string" /\ v.v # <<>>
Validated(m) == m.stage # "discovery"

\* C10 as stated: every validated manifest whose name is a string other than
\* the directory name has a validation failure of the name-mismatch kind.
C10_AnyStringMismatch ==
    \A i \in 1..Len(modules) :
        LET m == modules[i].v IN
        (NameDiffers(m) /\ Validated(m)) =>
            /\ m.stage = "validation" /\ ~m.success
            /\ m.error.name = "ManifestNameMismatchError"

\* C10 amended: every validated manifest whose name is a string other than
\* the directory name fails validation; the error is the name-mismatch kind
\* when name and entry are both non-empty strings, and the missing-field
\* kind otherwise.
C10_NameMismatch ==
    \A i \in 1..Len(modules) :
        LET m == modules[i].v IN
        (NameDiffers(m) /\ Validated(m)) =>
            /\ m.stage = "validation" /\ ~m.success
            /\ m.error.name =
                  IF /\ NonEmptyString(Prop(m.manifest, "name"))
                     /\ NonEmptyString(Prop(m.manifest, "entry"))
                  THEN "ManifestNameMismatchError"
                  ELSE "ManifestMissingFieldError"

\* C10 witness: a name-mismatch failure is on record for a manifest whose
\* entry file exists.
C10_Witness ==
    \E i \in 1..Len(modules) :
        LET m == modules[i].v IN
        /\ NameDiffers(m) /\ Validated(m)
        /\ m.error.name = "ManifestNameMismatchError"
        /\ Prop(m.manifest, "entry").v \in DOMAIN fs.entries[m.name].files

\* The manifest of record m names an entry string that ends in neither .ts
\* nor .js.
EntryLacksExtension(m) ==
    /\ "manifest" \in DOMAIN m
    /\ m.manifest.t = "object"
    /\ Prop(m.manifest, "entry").t = "string"
    /\ ~EndsWith(Prop(m.manifest, "entry").v, ExtTs)
    /\ ~EndsWith(Prop(m.manifest, "entry").v, ExtJs)
\* The error validate() builds for an entry of another extension: the base
\* class itself, with the text of the extension check as its cause.
ExtensionViolation(error) ==
    /\ error.name = "ModuleValidationError"
    /\ error.cause = "Entrypoint must be TypeScript or JavaScript"

\* C11 as stated: every validated manifest whose entry is a string ending in
\* neither .ts nor .js has a validation failure of the extension kind.
C11_AnyEntryExtension ==
    \A i \in 1..Len(modules) :
        LET m == modules[i].v IN
        (EntryLacksExtension(m) /\ Validated(m)) =>
            /\ m.stage = "validation" /\ ~m.success
            /\ ExtensionViolation(m.error)

\* C11 amended: every validated manifest whose entry is a string ending in
\* neither .ts nor .js fails validation; the error is the extension kind when
\* the entry is non-empty and the name is the directory name, whether or not
\* the file exists, the missing-field kind when the name or the entry is
\* empty or the name is no string, and the name-mismatch kind otherwise.
C11_ExtensionGate ==
    \A i \in 1..Len(modules) :
        LET m == modules[i].v
            name == Prop(m.manifest, "name")
            entry == Prop(m.manifest, "entry")
        IN
        (EntryLacksExtension(m) /\ Validated(m)) =>
            /\ m.stage = "validation" /\ ~m.success
            /\ IF ~NonEmptyString(name) \/ ~NonEmptyString(entry)
               THEN m.error.name = "ManifestMissingFieldError"
               ELSE IF name.v # m.name
               THEN m.error.name = "ManifestNameMismatchError"
               ELSE ExtensionViolation(m.error)

\* C11 witness: an extension failure is on record for an entry whose file
\* exists.
C11_Witness ==
    \E i \in 1..Len(modules) :
        LET m == modules[i].v IN
        /\ EntryLacksExtension(m) /\ Validated(m)
        /\ ExtensionViolation(m.error)
        /\ Prop(m.manifest, "entry").v \in DOMAIN fs.entries[m.name].files

\* C12: every failure record kept under name n with stage s carries an error
\* whose module is n and whose stage is s.
C12_ErrorNamesModuleAndStage ==
    \A i \in 1..Len(modules) :
        LET m == modules[i].v IN
        ~m.success =>
            /\ m.error.module = modules[i].k
            /\ m.error.stage = m.stage

\* Every failure record but those of the extension check carries an error
\* whose module and stage are the record's.
ErrorsOfOtherKindsNameModule ==
    \A i \in 1..Len(modules) :
        LET m == modules[i].v IN
        (~m.success /\ ~ExtensionViolation(m.error)) =>
            /\ m.error.module = modules[i].k
            /\ m.error.stage = m.stage

\* The run has gone through discovery: every directory found was read.
Discovered(r) == runs[r].pc \in {"load", "init", "done", "rejected"}
\* The names of the modules whose record is now a failure.
FailedNames == {modules[i].k : i \in {j \in 1..Len(modules) : ~modules[j].v.success}}

\* C13: the counts of getReport() against the run itself: discovered is the
\* number of directories found once discovery has read them all, validated
\* the number of manifests validation let through, loaded the number of
\* callables the loader returned, initialized the number of initializers that
\* finished, whatever became of the module later; failed is the number of
\* records that are now failures, and errors holds one error for each.
C13_ReportCounts ==
    LET report == getReport IN
    /\ Discovered(1) => report.discovered = Len(runs[1].directories)
    /\ report.validated = Len(runs[1].moduleManifests)
    /\ report.loaded = Len(runs[1].moduleInits)
    /\ report.initialized = Len(initOrder)
    /\ report.failed = Cardinality(FailedNames)
    /\ Len(report.errors) = Cardinality(FailedNames)
    /\ \A n \in FailedNames :
          Len(SelectSeq(report.errors, LAMBDA e : e = Record(n).error)) = 1
    /\ report.failed + report.initialized <= report.discovered

\* C13 witness: a finished run left a discovery failure, a module that
\* passed validation and failed to load, and an initialized module.
C13_Witness ==
    /\ runs[1].pc = "done"
    /\ getReport.initialized >= 1
    /\ getReport.validated > getReport.loaded
    /\ getReport.discovered > getReport.validated
    /\ getReport.failed >= 2

\* The load of entry j of the validated manifests of run r has settled.
LoadSettled(r, j) ==
    \/ runs[r].pc = "load" /\ j < runs[r].li
    \/ runs[r].pc \in {"init", "done"}
\* The entry file of a validated module n, as it is on the disk.
EntryFile(n, manifest) == fs.entries[n].files[Prop(manifest, "entry").v]
ExportsInit(file) ==
    /\ "init" \in DOMAIN file.exports
    /\ file.exports.init.t = "function"

\* C14: once the load of a validated module has settled, an entry that throws
\* on import has left a loading failure with a plain ModuleLoadError carrying
\* the cause, an entry without a function init a loading failure with an
\* EntryPointMissingInitError, and neither module has had its init called;
\* any other entry has handed its init to the run, and no init is called
\* while the run is still loading.
C14_LoaderOutcomes ==
    /\ runs[1].pc = "load" => initLog = <<>>
    /\ \A j \in 1..Len(runs[1].moduleManifests) :
        LET n == runs[1].moduleManifests[j].k
            file == EntryFile(n, runs[1].moduleManifests[j].v)
        IN  LoadSettled(1, j) =>
            IF ~file.evaluates
            THEN /\ Record(n).stage = "loading" /\ ~Record(n).success
                 /\ Record(n).error.name = "ModuleLoadError"
                 /\ Record(n).error.cause = "thrown by the module"
                 /\ ~MapHas(runs[1].moduleInits, n)
                 /\ InitCalls(n) = 0
            ELSE IF ~ExportsInit(file)
            THEN /\ Record(n).stage = "loading" /\ ~Record(n).success
                 /\ Record(n).error.name = "EntryPointMissingInitError"
                 /\ ~MapHas(runs[1].moduleInits, n)
                 /\ InitCalls(n) = 0
            ELSE /\ MapHas(runs[1].moduleInits, n)
                 /\ MapGet(runs[1].moduleInits, n) = file.exports.init
                 /\ runs[1].pc = "load" =>
                        Record(n).stage = "loading" /\ Record(n).success

\* C14 witness: a finished run holds a loading failure for an entry whose
\* init is not a function.
C14_Witness ==
    /\ runs[1].pc = "done"
    /\ \E j \in 1..Len(runs[1].moduleManifests) :
        LET n == runs[1].moduleManifests[j].k
            file == EntryFile(n, runs[1].moduleManifests[j].v)
        IN  /\ file.evaluates
            /\ "init" \in DOMAIN file.exports
            /\ ~ExportsInit(file)
            /\ Record(n).error.name = "EntryPointMissingInitError"

\* A finished run holds a loading failure for an entry that throws on import.
ThrowingEntryOnRecord ==
    /\ runs[1].pc = "done"
    /\ \E j \in 1..Len(runs[1].moduleManifests) :
        LET n == runs[1].moduleManifests[j].k IN
        /\ ~EntryFile(n, runs[1].moduleManifests[j].v).evaluates
        /\ Record(n).error.name = "ModuleLoadError"

\* Record n is an initialization success.
Initialized(n) ==
    HasRecord(n) /\ Record(n).stage = "initialization" /\ Record(n).success
\* The init of module n was called and its promise has settled.
InitSettled(n) == InitCalls(n) > 0 /\ \A p \in inFlight : p[2] # n
\* What the init function of module n does, read off the disk.
InitBehaviour(n) ==
    fs.entries[n].files[Prop(fs.entries[n].manifest.value, "entry").v].exports.init.v

\* C15: a name is in the load order log exactly when its record is an
\* initialization success, and the log holds no name twice; a module whose
\* init threw or rejected has an initialization failure with a
\* ModuleInitializationError and is not in the log.
C15_LogIffInitialized ==
    /\ \A n \in Dirs \cup {initOrder[i] : i \in 1..Len(initOrder)} :
          (\E i \in 1..Len(initOrder) : initOrder[i] = n) <=> Initialized(n)
    /\ \A i, j \in 1..Len(initOrder) : initOrder[i] = initOrder[j] => i = j
    /\ \A n \in Dirs :
          InitSettled(n) =>
            IF InitBehaviour(n) \in {"throws", "rejects"}
            THEN /\ Record(n).stage = "initialization" /\ ~Record(n).success
                 /\ Record(n).error.name = "ModuleInitializationError"
                 /\ \A i \in 1..Len(initOrder) : initOrder[i] # n
            ELSE Initialized(n)

\* C15 witness: a finished run has logged one module and holds the
\* initialization failures of a throwing init and of a rejecting init.
C15_Witness ==
    /\ runs[1].pc = "done"
    /\ initOrder # <<>>
    /\ \E n, k \in Dirs :
          /\ InitSettled(n) /\ InitBehaviour(n) = "throws"
          /\ InitSettled(k) /\ InitBehaviour(k) = "rejects"
          /\ ~Record(n).success /\ ~Record(k).success

\* Names asked about: the directories and a name no directory bears.
AskedNames == Dirs \cup {OtherName(NameList[1])}

\* C16: at every state, isModuleSetUp(n) is true exactly when the record of
\* n is an initialization success.
C16_SetUpIffInitialized ==
    \A n \in AskedNames : isModuleSetUp(n) <=> Initialized(n)

\* isModuleSetUp(n) is false for every name without a record and for every
\* failure record, and true for every initialization success.
SetUpOnlyIfSuccessRecord ==
    \A n \in AskedNames :
        /\ isModuleSetUp(n) => HasRecord(n) /\ Record(n).success
        /\ Initialized(n) => isModuleSetUp(n)

\* Once a run is done, isModuleSetUp(n) is true exactly for the
\* initialization successes.
SetUpIffInitializedWhenDone ==
    runs[1].pc = "done" => \A n \in AskedNames : isModuleSetUp(n) <=> Initialized(n)

\* The names of the manifests getManifests() returns, in its order.
ManifestNames == [i \in 1..Len(getManifests) |-> Prop(getManifests[i], "name").v]

\* C17: getManifests() returns the manifest of each module whose record is
\* an initialization success, once each, as it was read from the disk; the
\* names of these manifests, in order, are getLoadOrder(), and their number
\* is getReport().initialized.
C17_ManifestsOfInitialized ==
    /\ \A i \in 1..Len(getManifests) : getManifests[i].t = "object"
    /\ ManifestNames = getLoadOrder
    /\ Len(getManifests) = getReport.initialized
    /\ \A i, j \in 1..Len(getManifests) : ManifestNames[i] = ManifestNames[j] => i = j
    /\ \A n \in Dirs :
          Initialized(n) <=>
             \E i \in 1..Len(getManifests) :
                /\ ManifestNames[i] = n
                /\ getManifests[i] = fs.entries[n].manifest.value

\* C17 witness: two modules are initialized next to a module that failed
\* discovery.
C17_Witness ==
    /\ Len(getManifests) = 2
    /\ \E n \in Dirs : HasRecord(n) /\ ~Record(n).success /\ Record(n).stage = "discovery"

\* While a run is in flight getManifests() leaves out a record that is a
\* success of an earlier stage.
ManifestsLeaveOutEarlierSuccess ==
    /\ Len(getManifests) >= 1
    /\ \E n \in Dirs : HasRecord(n) /\ Record(n).success /\ ~Initialized(n)

\* C18: a __resetState() call that goes through is made in a test context
\* and leaves the registry and the load order log empty, the setup time 0 and
\* both flags clear; a setup() call made with both flags clear starts a run
\* of the pipeline from readdir; a __resetState() call that throws is made
\* outside a test context and leaves the pipeline state as it was.
C18_ResetGuarded ==
    [][/\ resets' # resets =>
            /\ testActive
            /\ modules' = EmptyMap /\ initOrder' = <<>> /\ setupTime' = 0
            /\ ~isSetupComplete' /\ ~isSetupInProgress'
            /\ resetThrows' = resetThrows
       /\ resetThrows' # resetThrows =>
            /\ ~testActive
            /\ UNCHANGED <<modules, initOrder, setupTime, isSetupComplete,
                           isSetupInProgress, runs, calls, initLog, inFlight>>
       /\ (Len(calls') > Len(calls) /\ ~isSetupComplete /\ ~isSetupInProgress) =>
            /\ calls'[Len(calls')].outcome = "pending"
            /\ isSetupInProgress'
            /\ \E r \in 1..MaxRuns :
                  /\ runs[r].pc = "free" /\ runs'[r].pc = "readdir"
                  /\ runs'[r].call = Len(calls')
      ]_vars

\* C18 witness: after a finished run and a reset, a second setup() call ran
\* the pipeline to its end and initialized a module a second time.
C18_Witness ==
    /\ testActive /\ resets = 1
    /\ runs[1].pc = "done" /\ runs[2].pc = "done"
    /\ isSetupComplete
    /\ \E n \in Dirs : InitCalls(n) = 2 /\ Initialized(n) /\ initOrder = <<n>>

\* Outside a test context a __resetState() call threw under a finished run
\* and left its registry in place.
ResetThrewOutsideTests ==
    ~testActive /\ resetThrows = 1 /\ isSetupComplete /\ modules # EmptyMap

\* Validation has run on entry j of what discover() returned to run r: the
\* loop of setup() reaches it unless validate() threw on an earlier entry.
ValidationRan(r, j) ==
    /\ Discovered(r)
    /\ runs[r].pc = "rejected" =>
          \A i \in 1..(j - 1) : Destructurable(runs[r].output[i].v)
\* The first check of the precedence list that manifest violates for
\* directory d, a field being present when it is a non-empty value.
FirstViolated(d, manifest) ==
    LET name == IF manifest.t = "object" THEN Prop(manifest, "name") ELSE Undefined
        entry == IF manifest.t = "object" THEN Prop(manifest, "entry") ELSE Undefined
    IN  IF ~NonEmptyString(name) THEN "missing field name"
        ELSE IF ~NonEmptyString(entry) THEN "missing field entry"
        ELSE IF name.v # d THEN "name mismatch"
        ELSE IF ~(EndsWith(entry.v, ExtTs) \/ EndsWith(entry.v, ExtJs))
        THEN "extension violation"
        ELSE IF entry.v \notin DOMAIN fs.entries[d].files THEN "entry not found"
        ELSE "pass"
\* What validation has put on record for module n.
RecordedOutcome(n) ==
    LET m == Record(n) IN
    IF m.stage = "discovery" THEN "nothing"
    ELSE IF m.stage # "validation" \/ m.success THEN "pass"
    ELSE IF m.error.name = "ManifestMissingFieldError"
    THEN IF m.error.message.args[2] = FieldName THEN "missing field name"
         ELSE "missing field entry"
    ELSE IF m.error.name = "ManifestNameMismatchError" THEN "name mismatch"
    ELSE IF m.error.name = "ManifestEntryNotFoundError" THEN "entry not found"
    ELSE IF ExtensionViolation(m.error) THEN "extension violation"
    ELSE "other"

\* C19: for every manifest validation has run on, the record shows the
\* first check of the precedence list that the manifest violates, and a pass
\* exactly when it violates none.
C19_ChecksInPrecedence ==
    \A j \in 1..Len(runs[1].output) :
        LET n == runs[1].output[j].k IN
        ValidationRan(1, j) =>
            /\ RecordedOutcome(n) = FirstViolated(n, runs[1].output[j].v)
            /\ MapHas(runs[1].moduleManifests, n) <=>
                   FirstViolated(n, runs[1].output[j].v) = "pass"

\* For every manifest other than null that validation has run on, the record
\* shows the first violated check, and a pass exactly when there is none.
ChecksInPrecedenceUnlessNull ==
    \A j \in 1..Len(runs[1].output) :
        LET n == runs[1].output[j].k IN
        (ValidationRan(1, j) /\ Destructurable(runs[1].output[j].v)) =>
            /\ RecordedOutcome(n) = FirstViolated(n, runs[1].output[j].v)
            /\ MapHas(runs[1].moduleManifests, n) <=>
                   FirstViolated(n, runs[1].output[j].v) = "pass"

\* The last stage that run 1 has taken module n through, to a return or to
\* a throw: "none" before discover() has read its manifest.
LastStageAttempted(n) ==
    IF InitSettled(n) THEN "initialization"
    ELSE IF \E j \in 1..Len(runs[1].moduleManifests) :
               runs[1].moduleManifests[j].k = n /\ LoadSettled(1, j)
    THEN "loading"
    ELSE IF \E j \in 1..Len(runs[1].output) :
               runs[1].output[j].k = n /\ ValidationRan(1, j)
    THEN "validation"
    ELSE IF \E i \in 1..Len(runs[1].directories) :
               runs[1].directories[i] = n /\ (i < runs[1].di \/ Discovered(1))
    THEN "discovery"
    ELSE "none"

\* No name has two records in the registry.
OneRecordEach == \A i, j \in 1..Len(modules) : modules[i].k = modules[j].k => i = j
\* A record past discovery belongs to a module that succeeded at every
\* earlier stage: discover() returned its manifest, validate() let it
\* through, load() returned its init.
EarlierStagesSucceeded ==
    \A i \in 1..Len(modules) :
        LET n == modules[i].k
            stage == modules[i].v.stage
        IN  /\ stage \in {"validation", "loading", "initialization"} =>
                  MapHas(runs[1].output, n) /\ ~BadManifest(n)
            /\ stage \in {"loading", "initialization"} =>
                  /\ MapHas(runs[1].moduleManifests, n)
                  /\ FirstViolated(n, fs.entries[n].manifest.value) = "pass"
            /\ stage = "initialization" =>
                  /\ MapHas(runs[1].moduleInits, n)
                  /\ ExportsInit(EntryFile(n, fs.entries[n].manifest.value))

\* C20: at every state each module has one record at most, the stage of a
\* record is the last stage the run has taken its module through, and a
\* record past discovery belongs to a module that succeeded at every earlier
\* stage.
C20_RecordIsLastStage ==
    /\ OneRecordEach
    /\ \A i \in 1..Len(modules) :
          modules[i].v.stage = LastStageAttempted(modules[i].k)
    /\ EarlierStagesSucceeded

\* The stage of every record is the last stage attempted, but for a null
\* manifest, on which validate() throws.
RecordIsLastStageUnlessNull ==
    \A i \in 1..Len(modules) :
        \/ modules[i].v.stage = LastStageAttempted(modules[i].k)
        \/ /\ fs.entries[modules[i].k].manifest.readable
           /\ fs.entries[modules[i].k].manifest.valid
           /\ ~Destructurable(fs.entries[modules[i].k].manifest.value)

\* A failure record never changes again.
FailureIsFinal ==
    [][\A i \in 1..Len(modules) :
          ~modules[i].v.success =>
             /\ Len(modules') >= i
             /\ modules'[i] = modules[i]]_vars

\* C21: the two flags are never both true; the in-progress flag is set only
\* when neither flag was set; and as long as no reset has gone through, the
\* in-progress flag is cleared only by completion, a completed pipeline stays
\* completed and not in progress, and its setup time stays what it was.
C21_RunStateMoves ==
    [][/\ ~(isSetupComplete' /\ isSetupInProgress')
       /\ (~isSetupInProgress /\ isSetupInProgress') =>
             (~isSetupComplete /\ ~isSetupComplete')
       /\ (isSetupInProgress /\ resets' = 0) =>
             (isSetupInProgress' \/ isSetupComplete')
       /\ (isSetupComplete /\ resets' = 0) =>
             /\ isSetupComplete' /\ ~isSetupInProgress'
             /\ setupTime' = setupTime
      ]_vars

\* C21 witness: without any reset a run has completed with a setup time,
\* and a later setup() call found the pipeline complete.
C21_Witness ==
    /\ resets = 0 /\ testActive
    /\ isSetupComplete /\ ~isSetupInProgress /\ setupTime > 0
    /\ Len(calls) >= 2 /\ calls[Len(calls)].found = "complete"

\* Stages that follow the one named.
PastDiscovery == {"validation", "loading", "initialization"}
PastValidation == {"loading", "initialization"}
\* Directory d holds a manifest that passes validation, read off the disk.
PassesValidation(d) ==
    ~BadManifest(d) /\ FirstViolated(d, fs.entries[d].manifest.value) = "pass"

\* C22: a module whose load is pending or still to come has a validation
\* success on record; a module whose init was called has had its load
\* return that init; and once any init was called, every module discover()
\* returned has been validated and every validated module has been through
\* its load.
C22_StageBarriers ==
    /\ runs[1].pc = "load" =>
          \A j \in runs[1].li..Len(runs[1].moduleManifests) :
             LET n == runs[1].moduleManifests[j].k IN
             Record(n).stage = "validation" /\ Record(n).success /\ InitCalls(n) = 0
    /\ \A n \in Dirs :
          InitCalls(n) > 0 =>
             /\ MapHas(runs[1].moduleInits, n)
             /\ PassesValidation(n)
             /\ Record(n).stage \in PastValidation
    /\ initLog # <<>> =>
          /\ runs[1].pc \in {"init", "done"}
          /\ \A d \in Dirs :
                /\ HasRecord(d)
                /\ ~BadManifest(d) => Record(d).stage \in PastDiscovery
                /\ PassesValidation(d) => Record(d).stage \in PastValidation

\* C22 witness: the first init is in flight while the registry holds a
\* loading failure and the loading success of a module whose init is still
\* to be called.
C22_Witness ==
    /\ runs[1].pc = "init" /\ Len(initLog) = 1 /\ inFlight # {}
    /\ \E b, d \in Dirs :
          /\ Record(b).stage = "loading" /\ ~Record(b).success
          /\ Record(d).stage = "loading" /\ Record(d).success /\ InitCalls(d) = 0

\* The names getReport().moduleDetails yields, in its order.
DetailNames ==
    [i \in 1..Len(getReport.moduleDetails) |-> getReport.moduleDetails[i].name]
\* The registry holds one record for each directory of the root, and no other.
OneRecordPerDirectory ==
    /\ OneRecordEach
    /\ MapKeySet(modules) = Dirs
    /\ \A i \in 1..Len(modules) : modules[i].v.name = modules[i].k

\* Record n is a discovery failure.
FailedDiscovery(n) == Record(n).stage = "discovery" /\ ~Record(n).success

\* C23: once discovery is through, the registry holds one record for each
\* directory of the modules root, and getReport().moduleDetails yields them
\* in lexicographic order of directory name.
C23_RegistryLexicographic ==
    Discovered(1) /\ fs.listable =>
        /\ OneRecordPerDirectory
        /\ IsSorted(DetailNames)

\* Once discovery is through, the registry holds one record for each
\* directory; the discovery failures come first, in lexicographic order, and
\* the other records after them, in lexicographic order.
RegistryFailuresFirst ==
    Discovered(1) /\ fs.listable =>
        /\ OneRecordPerDirectory
        /\ \A i, j \in 1..Len(DetailNames) :
              i < j =>
                \/ FailedDiscovery(DetailNames[i]) /\ ~FailedDiscovery(DetailNames[j])
                \/ /\ FailedDiscovery(DetailNames[i]) = FailedDiscovery(DetailNames[j])
                   /\ StrLess(DetailNames[i], DetailNames[j])

\* Sequence a is the head of sequence b.
IsPrefix(a, b) == Len(a) <= Len(b) /\ \A i \in 1..Len(a) : a[i] = b[i]

\* C24: every step other than a reset leaves the load order log as it was
\* or with names added at its end: what getLoadOrder() returned before the
\* step is the head of what it returns after.
C24_LogAppendOnly ==
    [][resets' = resets =>
          /\ IsPrefix(getLoadOrder, getLoadOrder')
          /\ Len(getLoadOrder') <= Len(getLoadOrder) + 1]_vars

\* C24 witness: the log holds two names, the second added behind the first.
C24_Witness ==
    /\ testActive
    /\ Len(getLoadOrder) = 2
    /\ StrLess(getLoadOrder[1], getLoadOrder[2])

\* Record m is terminal: a failure, or an initialization success.
Terminal(m) == ~m.success \/ m.stage = "initialization"

\* C25: at every state the counts of getReport() go down from discovered to
\* validated to loaded to initialized; once the pipeline is complete every
\* record is terminal, and initialized and failed add up to discovered.
C25_CountsOrdered ==
    LET report == getReport IN
    /\ report.discovered >= report.validated
    /\ report.validated >= report.loaded
    /\ report.loaded >= report.initialized
    /\ isSetupComplete =>
          /\ \A i \in 1..Len(modules) : Terminal(modules[i].v)
          /\ report.initialized + report.failed = report.discovered
          /\ report.discovered = Cardinality(Dirs)

\* C25 witness: the pipeline is complete with modules that failed at
\* different stages and one that is initialized.
C25_Witness ==
    /\ isSetupComplete
    /\ getReport.discovered = NumDirs
    /\ getReport.initialized = 1
    /\ getReport.failed = NumDirs - 1
    /\ getReport.validated >= 2

\* A run is in flight with a record that is not terminal, and the counts of
\* getReport() differ from one stage to the next.
CountsDifferInFlight ==
    /\ isSetupInProgress
    /\ \E i \in 1..Len(modules) : ~Terminal(modules[i].v)
    /\ getReport.discovered > getReport.validated
    /\ getReport.validated > getReport.loaded

====
